---- MODULE Spec2Model ----
(***************************************************************************)
(* Host telemetry views of horizon/dashboards/syspanel/hosts/views.py.     *)
(*                                                                         *)
(* The views are stateless request handlers: every handler reads the       *)
(* answers of the monitoring client and of the metrics client and shapes   *)
(* them into dictionaries.  The state of the model is the call that was    *)
(* served last (call), what it returned or raised (ret) and whether the    *)
(* server is waiting for a request or has just answered one (pc).  The     *)
(* answers of the two clients are inputs of each call.                     *)
(*                                                                         *)
(* Python strings that are compared for order (host identifiers) are       *)
(* sequences of character codes; strings that are only compared for        *)
(* equality are TLA+ strings.  Python None is the string PyNone, which is  *)
(* no interface name.                                                      *)
(***************************************************************************)
EXTENDS Integers, Sequences, FiniteSets, TLC

VARIABLES pc, call, ret

vars == <<pc, call, ret>>

(***************************************************************************)
(* Bounds of the model.                                                    *)
(***************************************************************************)
MaxPct == 102      \* percentages (cpu_load, mem_usage) range over 0..MaxPct
MaxState == 3      \* health codes range over -MaxState..MaxState
MaxInts == 2       \* interfaces enumerated for one host: 0..MaxInts
MaxParts == 2      \* partitions enumerated for one host: 0..MaxParts
MaxCatalog == 2    \* services in the request's service catalog: 0..MaxCatalog

PyNone == "None"

(***************************************************************************)
(* Outcome of a call: a returned value, or the exception that left it.     *)
(* calls lists the client methods invoked, in order, until it ended.       *)
(***************************************************************************)
Ok(v, cs) == [ok |-> TRUE, val |-> v, err |-> "", calls |-> cs]
Raise(e, cs) == [ok |-> FALSE, val |-> <<>>, err |-> e, calls |-> cs]

(***************************************************************************)
(* Host identifiers as byte strings, compared as Python 2 compares str.    *)
(***************************************************************************)
RECURSIVE StrLess(_, _)
StrLess(a, b) ==
    IF a = <<>> THEN b # <<>>
    ELSE IF b = <<>> THEN FALSE
    ELSE IF Head(a) # Head(b) THEN Head(a) < Head(b)
    ELSE StrLess(Tail(a), Tail(b))

\* sorted(keys): ascending list of the elements of the set S
RECURSIVE sorted(_)
sorted(S) ==
    IF S = {} THEN <<>>
    ELSE LET m == CHOOSE x \in S : \A y \in S \ {x} : StrLess(x, y)
         IN  <<m>> \o sorted(S \ {m})

\* "64.102.251.7"
HostPrefix == <<54, 52, 46, 49, 48, 50, 46, 50, 53, 49, 46, 55>>

\* the nine addresses '64.102.251.71' .. '64.102.251.79'
HardcodedHosts == { HostPrefix \o <<d>> : d \in 49..57 }

\* "10.0.0.2" and "10.0.0.9"
Host_10_0_0_2 == <<49, 48, 46, 48, 46, 48, 46, 50>>
Host_10_0_0_9 == <<49, 48, 46, 48, 46, 48, 46, 57>>

\* hosts a service catalog may name
CatalogHosts == {Host_10_0_0_2, Host_10_0_0_9, HostPrefix \o <<49>>}

(***************************************************************************)
(* Client calls.  failing is the set of client methods that raise for the  *)
(* host (timeout, unreachable, malformed answer).  The methods ms are      *)
(* invoked in order: the position of the first one that raises, or 0.      *)
(***************************************************************************)
FirstFail(ms, failing) ==
    IF \E i \in 1..Len(ms) : ms[i] \in failing
    THEN CHOOSE i \in 1..Len(ms) :
            /\ ms[i] \in failing
            /\ \A j \in 1..(i - 1) : ms[j] \notin failing
    ELSE 0

(***************************************************************************)
(* The threshold tests, one per place of the source.                       *)
(***************************************************************************)
cpu_class(cpu_load) ==
    IF cpu_load > 90 THEN "progress-danger"
    ELSE IF cpu_load > 60 THEN "progress-warning"
    ELSE "progress-success"

\* mem_class with the upper threshold test written >= instead of >
mem_class_ge(mem_usage) ==
    IF mem_usage >= 90 THEN "progress-danger"
    ELSE IF mem_usage > 60 THEN "progress-warning"
    ELSE "progress-success"

mem_class(mem_usage) ==
    IF mem_usage > 90 THEN "progress-danger"
    ELSE IF mem_usage > 60 THEN "progress-warning"
    ELSE "progress-success"

int_class(used) ==
    IF used > 90 THEN "progress-danger"
    ELSE IF used > 60 THEN "progress-warning"
    ELSE "progress-success"

total_class(tused) ==
    IF tused > 90 THEN "progress-danger"
    ELSE IF tused > 60 THEN "progress-warning"
    ELSE "progress-success"

\* host_class with the first test written >= instead of ==
host_class_ge(state) ==
    IF state >= 1 THEN "host_ok"
    ELSE IF state = 0 THEN "host_warn"
    ELSE "host_error"

host_class(state) ==
    IF state = 1 THEN "host_ok"
    ELSE IF state = 0 THEN "host_warn"
    ELSE "host_error"

(***************************************************************************)
(* _get_host_dict(request, host)                                           *)
(***************************************************************************)
HostDictCalls == <<"get_overall_state", "get_errors", "get_warnings", "get_notices">>

_get_host_dict(host, mon) ==
    LET f == FirstFail(HostDictCalls, mon.failing)
    IN  IF f # 0 THEN Raise("MonitorError", SubSeq(HostDictCalls, 1, f))
        ELSE Ok([name |-> host,
                 state |-> mon.state,
                 class |-> host_class(mon.state),
                 errors |-> mon.errors,
                 warnings |-> mon.warnings,
                 notices |-> mon.notices],
                HostDictCalls)

(***************************************************************************)
(* _get_host_cpu_dict(request, host, core=None)                            *)
(***************************************************************************)
CpuDictCalls == <<"get_cpu_load", "get_cpu_cores", "get_cpu_speed">>

_get_host_cpu_dict(host, mon) ==
    LET f == FirstFail(CpuDictCalls, mon.failing)
    IN  IF f # 0 THEN Raise("MonitorError", SubSeq(CpuDictCalls, 1, f))
        ELSE Ok([cpu_load |-> mon.cpu_load,
                 cores |-> mon.cores,
                 cpu_speed |-> mon.cpu_speed,
                 cpu_class |-> cpu_class(mon.cpu_load)],
                CpuDictCalls)

(***************************************************************************)
(* _get_host_mem_dict(request, host).  mem_used is the double              *)
(* (mem_usage / 100.0) * total_mem, kept as the fraction num/den it        *)
(* rounds: total_mem is 0 or a power of two, so the product is the         *)
(* correctly rounded value of mem_usage * total_mem / 100.                 *)
(***************************************************************************)
MemDictCalls == <<"get_total_memory", "get_mem_usage">>

\* _get_host_mem_dict deriving mem_used through a division by total_mem, which
\* raises when total_mem is 0
_get_host_mem_dict_div(host, mon) ==
    LET f == FirstFail(MemDictCalls, mon.failing)
    IN  IF f # 0 THEN Raise("MonitorError", SubSeq(MemDictCalls, 1, f))
        ELSE IF mon.total_mem = 0 THEN Raise("ZeroDivisionError", MemDictCalls)
        ELSE Ok([total_mem |-> mon.total_mem,
                 mem_usage |-> mon.mem_usage,
                 mem_used |-> [num |-> mon.mem_usage * mon.total_mem, den |-> 100],
                 mem_class |-> mem_class(mon.mem_usage)],
                MemDictCalls)

_get_host_mem_dict(host, mon) ==
    LET f == FirstFail(MemDictCalls, mon.failing)
    IN  IF f # 0 THEN Raise("MonitorError", SubSeq(MemDictCalls, 1, f))
        ELSE Ok([total_mem |-> mon.total_mem,
                 mem_usage |-> mon.mem_usage,
                 mem_used |-> [num |-> mon.mem_usage * mon.total_mem, den |-> 100],
                 mem_class |-> mem_class(mon.mem_usage)],
                MemDictCalls)

(***************************************************************************)
(* _get_host_part_dict(request, host).  The loop leaves part_dict bound    *)
(* to the dictionary of the last partition; after the loop that same       *)
(* dictionary gets the key 'parts' and is returned.  With no partition     *)
(* the name part_dict is never bound and its use raises.  has_parts marks  *)
(* the element of the list that is the returned dictionary itself.         *)
(***************************************************************************)
part_record(mon, parts, i) ==
    [name |-> parts[i],
     total |-> mon.part_stats[parts[i]].total,
     used |-> mon.part_stats[parts[i]].used,
     has_parts |-> (i = Len(parts))]

_get_host_part_dict(host, mon) ==
    LET parts == mon.parts
        k == Len(parts)
        statCalls == [i \in 1..k |-> "get_partition_stats"]
    IN  IF "get_monitored_partitions" \in mon.failing
        THEN Raise("MonitorError", <<"get_monitored_partitions">>)
        ELSE IF k > 0 /\ "get_partition_stats" \in mon.failing
        THEN Raise("MonitorError", <<"get_monitored_partitions", "get_partition_stats">>)
        ELSE IF k = 0
        THEN Raise("UnboundLocalError", <<"get_monitored_partitions">>)
        ELSE Ok([name |-> parts[k],
                 total |-> mon.part_stats[parts[k]].total,
                 used |-> mon.part_stats[parts[k]].used,
                 parts |-> [i \in 1..k |-> part_record(mon, parts, i)]],
                <<"get_monitored_partitions">> \o statCalls)

(***************************************************************************)
(* _get_host_net_dict(request, host, iface=None).                          *)
(*                                                                         *)
(* NetIter is one pass of the loop body for the i-th interface, acc the    *)
(* locals tband, ttx, trx, tused, tclass and net_ret.  tused is an int     *)
(* when the body starts; the body adds the double (used/100.0)*bandwidth   *)
(* and replaces tused by int((tused/tband)*100), which is                  *)
(* (100*tused + used*bandwidth) div tband in exact arithmetic.  The        *)
(* interface statistics are drawn from IfaceStats, on which the double     *)
(* computation and the exact one agree for every enumeration of up to      *)
(* MaxInts + 1 interfaces.  A zero tband makes the division raise.         *)
(***************************************************************************)
NetInit ==
    [tband |-> 0, ttx |-> 0, trx |-> 0, tused |-> 0, tclass |-> "",
     net_ret |-> <<>>, err |-> ""]

running_tused(tused, used, bandwidth, tband) ==
    (100 * tused + used * bandwidth) \div tband

NetIter(acc, interface, int_det, iface) ==
    LET int_dict == [name |-> interface,
                     bandwidth |-> int_det.bandwidth,
                     rx |-> int_det.rx,
                     tx |-> int_det.tx,
                     used |-> int_det.used,
                     class |-> int_class(int_det.used)]
        tband == acc.tband + int_det.bandwidth
        net_ret == IF iface = PyNone \/ iface = interface
                   THEN Append(acc.net_ret, int_dict)
                   ELSE acc.net_ret
    IN  IF tband = 0
        THEN [acc EXCEPT !.err = "ZeroDivisionError"]
        ELSE LET tused == running_tused(acc.tused, int_det.used,
                                        int_det.bandwidth, tband)
             IN  [tband |-> tband,
                  ttx |-> acc.ttx + int_det.tx,
                  trx |-> acc.trx + int_det.rx,
                  tused |-> tused,
                  tclass |-> total_class(tused),
                  net_ret |-> net_ret,
                  err |-> ""]

RECURSIVE NetLoop(_, _, _, _, _)
NetLoop(acc, ints, i, mon, iface) ==
    IF i > Len(ints) THEN [acc |-> acc, done |-> i - 1]
    ELSE IF "get_interface_stats" \in mon.failing
    THEN [acc |-> [acc EXCEPT !.err = "MonitorError"], done |-> i]
    ELSE LET nxt == NetIter(acc, ints[i], mon.int_stats[ints[i]], iface)
         IN  IF nxt.err # "" THEN [acc |-> nxt, done |-> i]
             ELSE NetLoop(nxt, ints, i + 1, mon, iface)

total_row(acc) ==
    [bandwidth |-> acc.tband,
     tx |-> acc.ttx,
     rx |-> acc.trx,
     used |-> acc.tused,
     class |-> acc.tclass]

_get_host_net_dict(host, mon, iface) ==
    IF "get_monitored_interfaces" \in mon.failing
    THEN Raise("MonitorError", <<"get_monitored_interfaces">>)
    ELSE LET r == NetLoop(NetInit, mon.ints, 1, mon, iface)
             cs == <<"get_monitored_interfaces">> \o
                   [j \in 1..r.done |-> "get_interface_stats"]
         IN  IF r.acc.err # "" THEN Raise(r.acc.err, cs)
             ELSE IF iface = PyNone \/ iface = "All"
             THEN Ok(Append(r.acc.net_ret, total_row(r.acc)), cs)
             ELSE Ok(r.acc.net_ret, cs)

(***************************************************************************)
(* Metrics client: the graph data of a host, optionally narrowed to one    *)
(* interface or core.                                                      *)
(***************************************************************************)
graph_data(kind, host, arg) == [graph |-> kind, host |-> host, arg |-> arg]

(***************************************************************************)
(* HostsView.get_data.  The hosts of the service catalog are collected     *)
(* into host_list, which is then replaced by the nine fixed addresses.     *)
(* monOf gives the monitoring answers of every host.  An exception of a    *)
(* helper leaves the loop and the handler.                                 *)
(***************************************************************************)
catalog_hosts(catalog) == { catalog[i] : i \in 1..Len(catalog) }

host_list(catalog) ==
    LET fromCatalog == catalog_hosts(catalog)
    IN  HardcodedHosts

RECURSIVE HostsLoop(_, _, _, _, _)
HostsLoop(order, i, monOf, hosts, cs) ==
    IF i > Len(order) THEN Ok([hosts |-> hosts], cs)
    ELSE LET host == order[i]
             host_gen_dict == _get_host_dict(host, monOf[host])
             host_cpu_dict == _get_host_cpu_dict(host, monOf[host])
             host_mem_dict == _get_host_mem_dict(host, monOf[host])
         IN  IF ~host_gen_dict.ok
             THEN Raise(host_gen_dict.err, cs \o host_gen_dict.calls)
             ELSE IF ~host_cpu_dict.ok
             THEN Raise(host_cpu_dict.err,
                        cs \o host_gen_dict.calls \o host_cpu_dict.calls)
             ELSE IF ~host_mem_dict.ok
             THEN Raise(host_mem_dict.err,
                        cs \o host_gen_dict.calls \o host_cpu_dict.calls
                           \o host_mem_dict.calls)
             ELSE HostsLoop(order, i + 1, monOf,
                            Append(hosts, host_gen_dict.val @@ host_cpu_dict.val
                                              @@ host_mem_dict.val),
                            cs \o host_gen_dict.calls \o host_cpu_dict.calls
                               \o host_mem_dict.calls)

HostsView_get_data(catalog, monOf) ==
    HostsLoop(sorted(host_list(catalog)), 1, monOf, <<>>, <<>>)

(***************************************************************************)
(* HostDetailView.get_data                                                 *)
(***************************************************************************)
GraphCalls == <<"get_cpu_graph", "get_mem_graph", "get_network_graph">>

HostDetailView_get_data(host, mon) ==
    LET host_dict == _get_host_dict(host, mon)
        cpu == _get_host_cpu_dict(host, mon)
        mem == _get_host_mem_dict(host, mon)
        part == _get_host_part_dict(host, mon)
        net_dict == _get_host_net_dict(host, mon, PyNone)
        c1 == host_dict.calls
        c2 == c1 \o cpu.calls
        c3 == c2 \o mem.calls
        c4 == c3 \o part.calls
        c5 == c4 \o net_dict.calls
        g == FirstFail(GraphCalls, mon.failing)
    IN  IF ~host_dict.ok THEN Raise(host_dict.err, c1)
        ELSE IF ~cpu.ok THEN Raise(cpu.err, c2)
        ELSE IF ~mem.ok THEN Raise(mem.err, c3)
        ELSE IF ~part.ok THEN Raise(part.err, c4)
        ELSE IF ~net_dict.ok THEN Raise(net_dict.err, c5)
        ELSE IF g # 0 THEN Raise("MetricsError", c5 \o SubSeq(GraphCalls, 1, g))
        ELSE Ok([host |->
                   host_dict.val @@
                   [cpu |-> cpu.val,
                    mem |-> mem.val,
                    part |-> part.val,
                    net |-> SubSeq(net_dict.val, 1, Len(net_dict.val) - 1),
                    net_total |-> net_dict.val[Len(net_dict.val)],
                    cpu_graph |-> graph_data("cpu", host, PyNone),
                    mem_graph |-> graph_data("mem", host, PyNone),
                    net_graph |-> graph_data("network", host, PyNone)]],
                c5 \o GraphCalls)

(***************************************************************************)
(* NetStatsView.get.  The answer is the JSON text of message with          *)
(* mimetype application/json; json holds the object the text encodes.      *)
(***************************************************************************)
NetStatsView_get(host_id, int_id, is_ajax, mon) ==
    LET host == host_id
        interface == IF int_id = "all" THEN PyNone ELSE int_id
        stats == _get_host_net_dict(host, mon, interface)
    IN  IF is_ajax
        THEN IF "get_network_graph" \in mon.failing
             THEN Raise("MetricsError", <<"get_network_graph">>)
             ELSE IF ~stats.ok
             THEN Raise(stats.err, <<"get_network_graph">> \o stats.calls)
             ELSE Ok([json |-> [graph |-> graph_data("network", host, interface),
                                stats |-> stats.val],
                      mimetype |-> "application/json"],
                     <<"get_network_graph">> \o stats.calls)
        ELSE Ok([json |-> [error |-> "Not a valid XMLHttpRequest"],
                 mimetype |-> "application/json"],
                <<>>)

(***************************************************************************)
(* CpuStatsView.get.  interface is assigned in the body, so it is a local  *)
(* name; the test `interface == 'all'` reads it before any assignment.     *)
(***************************************************************************)
CpuStatsView_get(host_id, cpu_id, is_ajax, mon) ==
    Raise("UnboundLocalError", <<>>)

(***************************************************************************)
(* Inputs: the answers of the monitoring service.                          *)
(***************************************************************************)
Range(f) == { f[x] : x \in DOMAIN f }

\* lists of at most n distinct elements of S
DistinctSeqs(S, n) ==
    UNION { { q \in [1..k -> S] : \A i, j \in 1..k : i # j => q[i] # q[j] }
            : k \in 0..n }

Pcts == 0..MaxPct
States == (0 - MaxState)..MaxState
TotalMems == {0, 4, 8}
Alerts == {<<>>, <<"fan failure">>}

IfaceNames == {"eth0", "eth1", "eth2"}
PartNames == {"/", "/var", "/home"}
Filters == {PyNone, "All", "all", "eth0", "eth1"}

IfaceStats ==
    { [bandwidth |-> 100, rx |-> 3, tx |-> 5, used |-> 50],
      [bandwidth |-> 50, rx |-> 1, tx |-> 2, used |-> 80],
      [bandwidth |-> 0, rx |-> 0, tx |-> 0, used |-> 0] }
    \cup { [bandwidth |-> 1000, rx |-> 7, tx |-> 9, used |-> u]
           : u \in {60, 61, 90, 91, 101} }

PartStats == { [total |-> 100, used |-> 40], [total |-> 50, used |-> 50] }

MonitorMethods ==
    {"get_overall_state", "get_errors", "get_warnings", "get_notices",
     "get_cpu_load", "get_cpu_cores", "get_cpu_speed",
     "get_total_memory", "get_mem_usage",
     "get_monitored_partitions", "get_partition_stats",
     "get_monitored_interfaces", "get_interface_stats"}

MetricsMethods == {"get_cpu_graph", "get_mem_graph", "get_network_graph"}

\* no call fails, or the calls of one method do
Failing(ms) == {{}} \cup { {m} : m \in ms }

\* a host that answers every call
MonBase ==
    [failing |-> {},
     state |-> 1,
     errors |-> <<>>, warnings |-> <<>>, notices |-> <<>>,
     cpu_load |-> 50, cores |-> 4, cpu_speed |-> 2,
     total_mem |-> 8, mem_usage |-> 50,
     parts |-> <<"/">>,
     part_stats |-> [n \in {"/"} |-> [total |-> 100, used |-> 40]],
     ints |-> <<"eth0">>,
     int_stats |-> [n \in {"eth0"} |-> [bandwidth |-> 100, rx |-> 3, tx |-> 5, used |-> 50]]]

\* a loaded host in warning state
MonBusy ==
    [MonBase EXCEPT !.state = 0, !.warnings = <<"fan failure">>,
                    !.cpu_load = 95, !.mem_usage = 61]

WithNet(mon, ints, int_stats) == [mon EXCEPT !.ints = ints, !.int_stats = int_stats]
WithParts(mon, parts, part_stats) == [mon EXCEPT !.parts = parts, !.part_stats = part_stats]

NoCall == [fn |-> "", host |-> <<>>, mon |-> MonBase, iface |-> PyNone,
           ajax |-> FALSE, catalog |-> <<>>]

(***************************************************************************)
(* The server: it waits for a request, serves it, answers.                 *)
(***************************************************************************)
Init ==
    /\ pc = "idle"
    /\ call = NoCall
    /\ ret = Ok(<<>>, <<>>)

Serve(c, r) ==
    /\ pc' = "done"
    /\ call' = c
    /\ ret' = r

Call_get_host_dict ==
    /\ pc = "idle"
    /\ \E host \in CatalogHosts, state \in States, errors \in Alerts,
       warnings \in Alerts, failing \in Failing(Range(HostDictCalls)) :
        LET mon == [MonBase EXCEPT !.state = state, !.errors = errors,
                                   !.warnings = warnings, !.failing = failing]
        IN  Serve([NoCall EXCEPT !.fn = "_get_host_dict", !.host = host, !.mon = mon],
                  _get_host_dict(host, mon))

Call_get_host_cpu_dict ==
    /\ pc = "idle"
    /\ \E host \in CatalogHosts, cpu_load \in Pcts,
       failing \in Failing(Range(CpuDictCalls)) :
        LET mon == [MonBase EXCEPT !.cpu_load = cpu_load, !.failing = failing]
        IN  Serve([NoCall EXCEPT !.fn = "_get_host_cpu_dict", !.host = host, !.mon = mon],
                  _get_host_cpu_dict(host, mon))

Call_get_host_mem_dict ==
    /\ pc = "idle"
    /\ \E host \in CatalogHosts, mem_usage \in Pcts, total_mem \in TotalMems,
       failing \in Failing(Range(MemDictCalls)) :
        LET mon == [MonBase EXCEPT !.mem_usage = mem_usage,
                                   !.total_mem = total_mem, !.failing = failing]
        IN  Serve([NoCall EXCEPT !.fn = "_get_host_mem_dict", !.host = host, !.mon = mon],
                  _get_host_mem_dict(host, mon))

Call_get_host_part_dict ==
    /\ pc = "idle"
    /\ \E host \in {Host_10_0_0_2}, parts \in DistinctSeqs(PartNames, MaxParts),
       failing \in Failing({"get_monitored_partitions", "get_partition_stats"}) :
        \E part_stats \in [Range(parts) -> PartStats] :
            LET mon == [WithParts(MonBase, parts, part_stats) EXCEPT !.failing = failing]
            IN  Serve([NoCall EXCEPT !.fn = "_get_host_part_dict", !.host = host, !.mon = mon],
                      _get_host_part_dict(host, mon))

Call_get_host_net_dict ==
    /\ pc = "idle"
    /\ \E host \in {Host_10_0_0_2}, ints \in DistinctSeqs(IfaceNames, MaxInts),
       iface \in Filters \ {"all"},
       failing \in Failing({"get_monitored_interfaces", "get_interface_stats"}) :
        \E int_stats \in [Range(ints) -> IfaceStats] :
            LET mon == [WithNet(MonBase, ints, int_stats) EXCEPT !.failing = failing]
            IN  Serve([NoCall EXCEPT !.fn = "_get_host_net_dict", !.host = host,
                                     !.mon = mon, !.iface = iface],
                      _get_host_net_dict(host, mon, iface))

\* one host of the fleet may be busy, and the calls of one method may fail for one host
Call_HostsView_get_data ==
    /\ pc = "idle"
    /\ \E catalog \in UNION { [1..k -> CatalogHosts] : k \in 0..MaxCatalog },
       busy \in SUBSET HardcodedHosts, down \in SUBSET HardcodedHosts,
       m \in {"get_overall_state", "get_cpu_speed", "get_mem_usage"} :
        /\ Cardinality(busy) <= 1
        /\ Cardinality(down) <= 1
        /\ LET monOf == [h \in HardcodedHosts |->
                           [(IF h \in busy THEN MonBusy ELSE MonBase)
                               EXCEPT !.failing = IF h \in down THEN {m} ELSE {}]]
           IN  Serve([NoCall EXCEPT !.fn = "HostsView.get_data", !.mon = monOf,
                                    !.catalog = catalog],
                     HostsView_get_data(catalog, monOf))

Call_HostDetailView_get_data ==
    /\ pc = "idle"
    /\ \E host \in {Host_10_0_0_2, Host_10_0_0_9},
       parts \in DistinctSeqs(PartNames, MaxParts),
       ints \in DistinctSeqs(IfaceNames, 1),
       failing \in Failing(MonitorMethods \cup MetricsMethods) :
        \E part_stats \in [Range(parts) -> PartStats],
           int_stats \in [Range(ints) -> IfaceStats] :
            LET mon == [WithNet(WithParts(MonBase, parts, part_stats), ints, int_stats)
                           EXCEPT !.failing = failing]
            IN  Serve([NoCall EXCEPT !.fn = "HostDetailView.get_data", !.host = host,
                                     !.mon = mon],
                      HostDetailView_get_data(host, mon))

Call_NetStatsView_get ==
    /\ pc = "idle"
    /\ \E host \in {Host_10_0_0_2}, ints \in DistinctSeqs(IfaceNames, MaxInts),
       int_id \in Filters, is_ajax \in BOOLEAN,
       failing \in Failing({"get_network_graph", "get_interface_stats"}) :
        \E int_stats \in [Range(ints) -> IfaceStats] :
            LET mon == [WithNet(MonBase, ints, int_stats) EXCEPT !.failing = failing]
            IN  Serve([NoCall EXCEPT !.fn = "NetStatsView.get", !.host = host,
                                     !.mon = mon, !.iface = int_id, !.ajax = is_ajax],
                      NetStatsView_get(host, int_id, is_ajax, mon))

Call_CpuStatsView_get ==
    /\ pc = "idle"
    /\ \E host \in CatalogHosts, cpu_id \in {"all", "0", "1"}, is_ajax \in BOOLEAN,
       cpu_load \in {50, 95}, failing \in Failing({"get_cpu_graph"}) :
        LET mon == [MonBase EXCEPT !.cpu_load = cpu_load, !.failing = failing]
        IN  Serve([NoCall EXCEPT !.fn = "CpuStatsView.get", !.host = host,
                                 !.mon = mon, !.iface = cpu_id, !.ajax = is_ajax],
                  CpuStatsView_get(host, cpu_id, is_ajax, mon))

\* the answer is sent and nothing of the request is kept: the server waits
\* for the next request
Respond ==
    /\ pc = "done"
    /\ pc' = "idle"
    /\ call' = NoCall
    /\ ret' = Ok(<<>>, <<>>)

Next ==
    \/ Call_get_host_dict
    \/ Call_get_host_cpu_dict
    \/ Call_get_host_mem_dict
    \/ Call_get_host_part_dict
    \/ Call_get_host_net_dict
    \/ Call_HostsView_get_data
    \/ Call_HostDetailView_get_data
    \/ Call_NetStatsView_get
    \/ Call_CpuStatsView_get
    \/ Respond

Spec == Init /\ [][Next]_vars

TypeOK ==
    /\ pc \in {"idle", "done"}
    /\ ret.ok \in BOOLEAN

(***************************************************************************)
(* Properties.                                                             *)
(***************************************************************************)
Served(fn) == pc = "done" /\ call.fn = fn

\* the three-level rule of the threshold classifier, as the specification states it
UtilizationClass(p) ==
    CASE p > 90 -> "progress-danger"
      [] 60 < p /\ p <= 90 -> "progress-warning"
      [] OTHER -> "progress-success"

\* the rows of a network result that describe one interface / the total
IsIfaceRow(row) == "name" \in DOMAIN row
LastRow(rows) == rows[Len(rows)]

\* the orders in which the interfaces of ints can be enumerated
Perms(ints) ==
    { q \in [1..Len(ints) -> Range(ints)] : Range(q) = Range(ints) }

\* round(n / d) for n >= 0, d > 0
RoundDiv(n, d) == (2 * n + d) \div (2 * d)

\* sum over the interfaces of used * bandwidth, and of bandwidth
RECURSIVE SumWeighted(_, _, _)
SumWeighted(ints, st, i) ==
    IF i > Len(ints) THEN 0
    ELSE st[ints[i]].used * st[ints[i]].bandwidth + SumWeighted(ints, st, i + 1)

RECURSIVE SumBand(_, _, _)
SumBand(ints, st, i) ==
    IF i > Len(ints) THEN 0
    ELSE st[ints[i]].bandwidth + SumBand(ints, st, i + 1)

\* C1: with no filter, every order of enumeration of the same interfaces gives
\* the same 'used' and the same 'class' in the total row.
C1_OrderInvariant ==
    (Served("_get_host_net_dict") /\ call.iface = PyNone /\ ret.ok) =>
        \A q \in Perms(call.mon.ints) :
            LET other == _get_host_net_dict(call.host,
                                            WithNet(call.mon, q, call.mon.int_stats),
                                            PyNone)
            IN  other.ok =>
                    /\ LastRow(other.val).used = LastRow(ret.val).used
                    /\ LastRow(other.val).class = LastRow(ret.val).class

\* C2: with at least one interface and non-zero total bandwidth the total row's
\* 'used' is round(S / B * 100), S the sum of (used/100)*bandwidth, B the sum
\* of the bandwidths, and its 'class' is the threshold class of that value.
C2_AggregateOnce ==
    (Served("_get_host_net_dict") /\ call.iface = PyNone /\ ret.ok
        /\ Len(call.mon.ints) >= 1) =>
        LET S100 == SumWeighted(call.mon.ints, call.mon.int_stats, 1)
            B == SumBand(call.mon.ints, call.mon.int_stats, 1)
        IN  B # 0 =>
                /\ LastRow(ret.val).used = RoundDiv(S100, B)
                /\ LastRow(ret.val).class = UtilizationClass(RoundDiv(S100, B))

\* C3: with no interface and no filter the call raises nothing and returns the
\* total row alone, with 'used' 0 and 'class' 'progress-success'.
C3_ZeroInterfaces ==
    (Served("_get_host_net_dict") /\ call.iface = PyNone
        /\ call.mon.ints = <<>>
        /\ "get_monitored_interfaces" \notin call.mon.failing) =>
        /\ ret.ok
        /\ Len(ret.val) = 1
        /\ ~IsIfaceRow(ret.val[1])
        /\ ret.val[1].used = 0
        /\ ret.val[1].class = "progress-success"

\* C4: when a monitoring call fails for one host of the fleet, 'hosts' still has
\* one entry per host, and every other host has its full summary.
C4_FailureIsolated ==
    Served("HostsView.get_data") =>
        LET fleet == host_list(call.catalog)
        IN  /\ ret.ok
            /\ Len(ret.val.hosts) = Cardinality(fleet)
            /\ \A h \in fleet :
                 \E i \in 1..Len(ret.val.hosts) :
                    /\ ret.val.hosts[i].name = h
                    /\ call.mon[h].failing = {} =>
                         /\ ret.val.hosts[i].state = call.mon[h].state
                         /\ ret.val.hosts[i].cpu_load = call.mon[h].cpu_load
                         /\ ret.val.hosts[i].mem_usage = call.mon[h].mem_usage

\* C5: 'hosts' has one summary per distinct host of the service catalog, in
\* ascending order of host identifier.
C5_CatalogHostsSorted ==
    (Served("HostsView.get_data")
        /\ \A h \in HardcodedHosts : call.mon[h].failing = {}) =>
        /\ ret.ok
        /\ [i \in 1..Len(ret.val.hosts) |-> ret.val.hosts[i].name]
              = sorted(catalog_hosts(call.catalog))

\* C6: a single interface name gives that interface's row and no total row;
\* None or 'All' gives one row per interface, in enumeration order, then the
\* total row.
C6_Filter ==
    (Served("_get_host_net_dict") /\ ret.ok) =>
        LET ints == call.mon.ints
            rows == ret.val
        IN  IF call.iface \in {PyNone, "All"}
            THEN /\ Len(rows) = Len(ints) + 1
                 /\ \A i \in 1..Len(ints) :
                        IsIfaceRow(rows[i]) /\ rows[i].name = ints[i]
                 /\ ~IsIfaceRow(LastRow(rows))
            ELSE /\ \A i \in 1..Len(rows) :
                        IsIfaceRow(rows[i]) /\ rows[i].name = call.iface
                 /\ Len(rows) = Cardinality({ i \in 1..Len(ints) : ints[i] = call.iface })

\* C7: cpu_class, mem_class and the class of every interface row follow the one
\* rule: 'progress-danger' iff p > 90, 'progress-warning' iff 60 < p <= 90,
\* 'progress-success' otherwise.
C7_ThresholdRule ==
    (pc = "done" /\ ret.ok) =>
        /\ call.fn = "_get_host_cpu_dict" =>
              /\ ret.val.cpu_load = call.mon.cpu_load
              /\ ret.val.cpu_class = UtilizationClass(call.mon.cpu_load)
        /\ call.fn = "_get_host_mem_dict" =>
              /\ ret.val.mem_usage = call.mon.mem_usage
              /\ ret.val.mem_class = UtilizationClass(call.mon.mem_usage)
        /\ call.fn = "_get_host_net_dict" =>
              \A i \in 1..Len(ret.val) :
                  IsIfaceRow(ret.val[i]) =>
                      /\ ret.val[i].used = call.mon.int_stats[ret.val[i].name].used
                      /\ ret.val[i].class =
                            UtilizationClass(call.mon.int_stats[ret.val[i].name].used)
        /\ call.fn = "HostsView.get_data" =>
              \A i \in 1..Len(ret.val.hosts) :
                  LET e == ret.val.hosts[i]
                  IN  /\ e.cpu_class = UtilizationClass(call.mon[e.name].cpu_load)
                      /\ e.mem_class = UtilizationClass(call.mon[e.name].mem_usage)

\* a memory usage of exactly 90 has been classified, as WARNING
C7_Witness ==
    /\ Served("_get_host_mem_dict")
    /\ ret.ok
    /\ call.mon.mem_usage = 90
    /\ ret.val.mem_class = "progress-warning"

\* C8: state 1 gives 'host_ok', state 0 gives 'host_warn', every other integer
\* gives 'host_error', and 'state' keeps the integer as the service gave it.
C8_HealthClass ==
    (Served("_get_host_dict") /\ ret.ok) =>
        /\ ret.val.state = call.mon.state
        /\ call.mon.state = 1 => ret.val.class = "host_ok"
        /\ call.mon.state = 0 => ret.val.class = "host_warn"
        /\ call.mon.state \notin {0, 1} => ret.val.class = "host_error"

\* a health code above 1 has been classified, as ERROR
C8_Witness ==
    /\ Served("_get_host_dict")
    /\ ret.ok
    /\ call.mon.state > 1
    /\ ret.val.class = "host_error"

\* C9: an AJAX request to NetStatsView or CpuStatsView is answered, without
\* error, by a record with 'graph' (of the requested host) and 'stats'; any
\* other request by a record with 'error' alone, and no client is called.
\* (Stated for hosts whose clients answer and whose interfaces have bandwidth.)
C9_StatsViews ==
    ((Served("NetStatsView.get") \/ Served("CpuStatsView.get"))
        /\ call.mon.failing = {}
        /\ \A n \in Range(call.mon.ints) : call.mon.int_stats[n].bandwidth > 0) =>
        /\ ret.ok
        /\ call.ajax =>
              /\ DOMAIN ret.val.json = {"graph", "stats"}
              /\ ret.val.json.graph.host = call.host
              /\ Len(ret.calls) >= 1
        /\ ~call.ajax =>
              /\ DOMAIN ret.val.json = {"error"}
              /\ ret.calls = <<>>

\* C10: for k enumerated partitions (k >= 0) _get_host_part_dict raises nothing
\* and yields k records, the i-th with the name, total and used of the i-th
\* partition.
C10_PartitionRecords ==
    (Served("_get_host_part_dict") /\ call.mon.failing = {}) =>
        LET parts == call.mon.parts
        IN  /\ ret.ok
            /\ Len(ret.val.parts) = Len(parts)
            /\ \A i \in 1..Len(parts) :
                  /\ ret.val.parts[i].name = parts[i]
                  /\ ret.val.parts[i].total = call.mon.part_stats[parts[i]].total
                  /\ ret.val.parts[i].used = call.mon.part_stats[parts[i]].used

\* C11: when get_total_memory reports 0, _get_host_mem_dict raises nothing,
\* 'mem_used' is 0 whatever mem_usage is, and 'mem_class' is still the
\* threshold class of mem_usage.
C11_ZeroTotalMemory ==
    (Served("_get_host_mem_dict") /\ call.mon.failing = {}
        /\ call.mon.total_mem = 0) =>
        /\ ret.ok
        /\ ret.val.total_mem = 0
        /\ ret.val.mem_used.num = 0
        /\ ret.val.mem_used.den # 0
        /\ ret.val.mem_class = UtilizationClass(call.mon.mem_usage)

\* a host reporting no memory at all and a critical usage has been summarised
C11_Witness ==
    /\ Served("_get_host_mem_dict")
    /\ call.mon.failing = {}
    /\ call.mon.total_mem = 0
    /\ call.mon.mem_usage > 90
    /\ ret.ok
    /\ ret.val.mem_used.num = 0
    /\ ret.val.mem_class = "progress-danger"

====
